---- MODULE Spec2Model ----
(***************************************************************************)
(* Financial-Scope: the price resolver of GET /api/market/prices, the      *)
(* price stage of the refresh endpoint, and the market-price store they    *)
(* share.                                                                  *)
(*                                                                         *)
(* Representation.  Money is an integer number of cents (96500.00 is       *)
(* 9650000); a percentage is an integer number of hundredths of a percent  *)
(* (1.25 % is 125).  A nullable number is a tuple: <<>> is null/undefined  *)
(* and <<v>> is the number v.  A missing string is "".  The clock counts   *)
(* whole hours.                                                            *)
(***************************************************************************)
EXTENDS Integers, Sequences, FiniteSets, TLC

\* ------------------------------------------------------------------ bounds

\* Items the primary quote source returns in one answer, at most.
MaxItems == 2

\* Requests (GET /api/market/prices and refresh together) started in a run.
MaxRequests == 2

\* Last hour the clock reaches.
MaxClock == 2

\* Last millisecond the clock of the data-fetcher reaches.
MaxMillis == 3

\* fetchData calls the dashboard makes in a run, at most.
MaxCalls == 4

\* ------------------------------------------------------- program constants

\* index.ts:4  60 * 60 * 1000, one hour in milliseconds.
REFRESH_INTERVAL == 3600000

\* route.ts:151  60 * 60 * 1000 ms, in clock units (hours).
OneHour == 1

None == <<>>

Some(v) == <<v>>

\* a ?? b on nullable numbers
Coalesce(a, b) == IF a # None THEN a ELSE b

\* a || null on nullable numbers: 0 is falsy
OrNull(a) == IF a # None /\ a[1] # 0 THEN a ELSE None

\* a || b on strings: "" is falsy
OrStr(a, b) == IF a # "" THEN a ELSE b

SYMBOL_NAMES ==
  [k \in {"^GSPC", "GC=F", "SI=F", "BTC-USD", "ETH-USD", "KZT=X",
          "SP500", "GOLD", "SILVER", "BTC", "ETH", "USDKZT"} |->
     CASE k \in {"^GSPC", "SP500"}   -> "S&P 500"
       [] k \in {"GC=F", "GOLD"}     -> "Gold"
       [] k \in {"SI=F", "SILVER"}   -> "Silver"
       [] k \in {"BTC-USD", "BTC"}   -> "Bitcoin"
       [] k \in {"ETH-USD", "ETH"}   -> "Ethereum"
       [] k \in {"KZT=X", "USDKZT"}  -> "USD/KZT"]

DefaultSymbols == <<"SP500", "GOLD", "SILVER", "BTC", "ETH", "USDKZT">>

DEFAULT_PRICES ==
  [s \in {"SP500", "GOLD", "SILVER", "BTC", "ETH", "USDKZT"} |->
     CASE s = "SP500"  -> [price |-> 534052,  change24h |-> 15,  high |-> 536520,  low |-> 531840]
       [] s = "GOLD"   -> [price |-> 293550,  change24h |-> 32,  high |-> 294830,  low |-> 292010]
       [] s = "SILVER" -> [price |-> 3325,    change24h |-> -18, high |-> 3380,    low |-> 3290]
       [] s = "BTC"    -> [price |-> 9650000, change24h |-> 125, high |-> 9720000, low |-> 9550000]
       [] s = "ETH"    -> [price |-> 272500,  change24h |-> 85,  high |-> 275000,  low |-> 269000]
       [] s = "USDKZT" -> [price |-> 49462,   change24h |-> 12,  high |-> 49650,   low |-> 49230]]

HasDefault(s) == s \in DOMAIN DEFAULT_PRICES

requiredSymbols == <<"SP500", "GOLD", "SILVER", "BTC", "ETH", "USDKZT">>

\* The batch both handlers request: MARKET_SYMBOLS.SP500 .. USDKZT.
symbols == <<"^GSPC", "GC=F", "SI=F", "BTC-USD", "ETH-USD", "KZT=X">>

PRICE_RANGES ==
  [t \in {"BTC-USD", "ETH-USD", "^GSPC", "GC=F", "SI=F", "KZT=X"} |->
     CASE t = "BTC-USD" -> [min |-> 5000000, max |-> 15000000]
       [] t = "ETH-USD" -> [min |-> 100000,  max |-> 500000]
       [] t = "^GSPC"   -> [min |-> 400000,  max |-> 700000]
       [] t = "GC=F"    -> [min |-> 150000,  max |-> 350000]
       [] t = "SI=F"    -> [min |-> 1500,    max |-> 5000]
       [] t = "KZT=X"   -> [min |-> 40000,   max |-> 60000]]

symbolNames ==
  [t \in {"^GSPC", "GC=F", "SI=F", "BTC-USD", "ETH-USD", "KZT=X"} |->
     CASE t = "^GSPC"   -> "S&P 500 index"
       [] t = "GC=F"    -> "Gold price"
       [] t = "SI=F"    -> "Silver price"
       [] t = "BTC-USD" -> "Bitcoin BTC"
       [] t = "ETH-USD" -> "Ethereum ETH"
       [] t = "KZT=X"   -> "USD to KZT exchange rate"]

\* ------------------------------------------------- upstream (environment)

\* What the quote gateway can put in one item of its answer.  price is
\* item.price || 0, so a missing price is the price 0.
\* Volumes are in millions.  GLD is a ticker outside the normalizer's table
\* and without a default.
UpstreamItems ==
  { [ticker |-> "BTC-USD", name |-> "Bitcoin USD", price |-> 9600000,
     changePercent |-> Some(110), high |-> Some(9700000), low |-> Some(9500000),
     volume |-> Some(2000)],
    [ticker |-> "BTC-USD", name |-> "", price |-> 9700000,
     changePercent |-> None, high |-> None, low |-> None, volume |-> None],
    [ticker |-> "ETH-USD", name |-> "", price |-> -500,
     changePercent |-> None, high |-> None, low |-> None, volume |-> None],
    [ticker |-> "GLD", name |-> "SPDR Gold", price |-> 25000,
     changePercent |-> None, high |-> None, low |-> None, volume |-> Some(7)],
    [ticker |-> "GLD", name |-> "", price |-> 0,
     changePercent |-> None, high |-> None, low |-> None, volume |-> None] }

RECURSIVE SeqsUpTo(_, _)
SeqsUpTo(S, n) ==
  IF n = 0 THEN {<<>>}
  ELSE LET shorter == SeqsUpTo(S, n - 1)
       IN  shorter \cup {Append(q, x) : q \in shorter, x \in S}

\* An answer of fetchFinanceAPI: it throws (ok = FALSE) or returns a list.
PrimaryAnswers ==
  {[ok |-> FALSE, data |-> <<>>]}
    \cup {[ok |-> TRUE, data |-> d] : d \in SeqsUpTo(UpstreamItems, MaxItems)}

\* What one web search gives for a ticker: nothing (the call throws or the
\* result list is empty), or the numbers its snippets hold: every match of the
\* number pattern in text order, the number after "high", the number after
\* "low", the first percentage.
NoResults == [found |-> FALSE, nums |-> <<>>, high |-> None, low |-> None, change |-> None]

SearchDown == [t \in {"^GSPC", "GC=F", "SI=F", "BTC-USD", "ETH-USD", "KZT=X"} |-> NoResults]

SearchWorlds ==
  { SearchDown,
    [SearchDown EXCEPT !["BTC-USD"] =
       [found |-> TRUE, nums |-> <<9720000, 9800000>>, high |-> Some(9800000),
        low |-> None, change |-> Some(-120)]],
    [SearchDown EXCEPT
       !["BTC-USD"] =
         [found |-> TRUE, nums |-> <<2025, 9720000>>, high |-> Some(9800000),
          low |-> Some(9600000), change |-> None],
       !["ETH-USD"] =
         [found |-> TRUE, nums |-> <<>>, high |-> None, low |-> None, change |-> None]] }

\* ------------------------------------------------------------ finance-api

Abs(x) == IF x < 0 THEN -x ELSE x

Midpoint(range) == (range.min + range.max) \div 2

\* The scan that settles on the first number within the expected range.
RECURSIVE FindPriceFirst(_, _, _, _)
FindPriceFirst(nums, i, price, range) ==
  IF i > Len(nums) THEN price
  ELSE LET num == nums[i]
           take == /\ num >= range.min
                   /\ num <= range.max
                   /\ price = 0
       IN  FindPriceFirst(nums, i + 1, IF take THEN num ELSE price, range)

\* The scan for a price within the expected range (0 while none is found).
RECURSIVE FindPrice(_, _, _, _)
FindPrice(nums, i, price, range) ==
  IF i > Len(nums) THEN price
  ELSE LET num == nums[i]
           take == /\ num >= range.min
                   /\ num <= range.max
                   /\ \/ price = 0
                      \/ Abs(num - Midpoint(range)) < Abs(price - Midpoint(range))
       IN  FindPrice(nums, i + 1, IF take THEN num ELSE price, range)

\* The extraction taking the high and the low of the snippets as they come.
getPriceViaWebSearchAnyHighLow(symbol, displayName, res) ==
  IF ~res.found THEN None
  ELSE LET range == PRICE_RANGES[symbol]
           found == FindPrice(res.nums, 1, 0, range)
           price == IF found = 0 THEN Midpoint(range) ELSE found
           h     == IF res.high # None THEN res.high[1] ELSE 0
           l     == IF res.low # None THEN res.low[1] ELSE 0
           high  == IF h = 0 THEN (price * 101) \div 100 ELSE h
           low   == IF l = 0 THEN (price * 99) \div 100 ELSE l
           cp    == IF res.change # None THEN res.change[1] ELSE 0
       IN  Some([ticker |-> symbol, name |-> displayName, price |-> price,
                 changePercent |-> Some(cp), high |-> Some(high), low |-> Some(low),
                 volume |-> Some(0)])

\* null, or the quote read out of the snippets.  Every ticker of the batch has
\* a range in PRICE_RANGES.
getPriceViaWebSearch(symbol, displayName, res) ==
  IF ~res.found THEN None
  ELSE LET range == PRICE_RANGES[symbol]
           found == FindPrice(res.nums, 1, 0, range)
           price == IF found = 0 THEN Midpoint(range) ELSE found
           h     == IF res.high # None /\ res.high[1] > price THEN res.high[1] ELSE 0
           l     == IF res.low # None /\ res.low[1] < price THEN res.low[1] ELSE 0
           high  == IF h = 0 THEN (price * 101) \div 100 ELSE h
           low   == IF l = 0 THEN (price * 99) \div 100 ELSE l
           cp    == IF res.change # None THEN res.change[1] ELSE 0
       IN  Some([ticker |-> symbol, name |-> displayName, price |-> price,
                 changePercent |-> Some(cp), high |-> Some(high), low |-> Some(low),
                 volume |-> Some(0)])

\* The web-search fallback of getSnapshots over tickers[i..].
RECURSIVE SearchEach(_, _, _)
SearchEach(tickers, i, search) ==
  IF i > Len(tickers) THEN <<>>
  ELSE LET quote == getPriceViaWebSearch(tickers[i], symbolNames[tickers[i]],
                                         search[tickers[i]])
           rest  == SearchEach(tickers, i + 1, search)
       IN  IF quote # None /\ quote[1].price > 0 THEN <<quote[1]>> \o rest ELSE rest

\* Whether getSnapshots returns the gateway's own answer.
PrimaryUsable(primary) ==
  /\ primary.ok
  /\ Len(primary.data) > 0
  /\ \E i \in 1..Len(primary.data) : primary.data[i].price > 0

getSnapshots(tickers, primary, search) ==
  IF PrimaryUsable(primary) THEN primary.data ELSE SearchEach(tickers, 1, search)

\* The stage that produced what getSnapshots returned.
SnapshotStage(primary) == IF PrimaryUsable(primary) THEN "primary" ELSE "extracted"

\* ------------------------------------------------------------------ store

\* db.marketPrice: the rows in insertion order, at most one per symbol.
HasRow(st, sym) == \E i \in 1..Len(st) : st[i].symbol = sym

RowOf(st, sym) == st[CHOOSE i \in 1..Len(st) : st[i].symbol = sym]

\* upsert as an insert that leaves an existing row alone.
upsertCreateOnly(st, data, t) ==
  IF HasRow(st, data.symbol)
  THEN st
  ELSE Append(st, [symbol |-> data.symbol, name |-> data.name, price |-> data.price,
                   change24h |-> data.change24h, high24h |-> data.high24h,
                   low24h |-> data.low24h, volume |-> data.volume, updatedAt |-> t])

\* upsert as an update of the price alone: the other fields of an existing row
\* stay those of its earlier writer.
upsertPriceOnly(st, data, t) ==
  IF HasRow(st, data.symbol)
  THEN [i \in 1..Len(st) |->
          IF st[i].symbol = data.symbol
          THEN [st[i] EXCEPT !.price = data.price, !.updatedAt = t]
          ELSE st[i]]
  ELSE Append(st, [symbol |-> data.symbol, name |-> data.name, price |-> data.price,
                   change24h |-> data.change24h, high24h |-> data.high24h,
                   low24h |-> data.low24h, volume |-> data.volume, updatedAt |-> t])

\* db.marketPrice.upsert({where: {symbol}, update: {...all fields...,
\* updatedAt}, create: data}) at time t.
upsert(st, data, t) ==
  LET row == [symbol |-> data.symbol, name |-> data.name, price |-> data.price,
              change24h |-> data.change24h, high24h |-> data.high24h,
              low24h |-> data.low24h, volume |-> data.volume, updatedAt |-> t]
  IN  IF HasRow(st, data.symbol)
      THEN [i \in 1..Len(st) |-> IF st[i].symbol = data.symbol THEN row ELSE st[i]]
      ELSE Append(st, row)

\* The fields of a row or of a response entry a caller compares.
Fields(r) ==
  [symbol |-> r.symbol, name |-> r.name, price |-> r.price, change24h |-> r.change24h,
   high24h |-> r.high24h, low24h |-> r.low24h, volume |-> r.volume]

\* ------------------------------------------------ GET /api/market/prices

\* The naming that shows the raw ticker for every ticker outside the table.
NormalizeTickerAsName(item) ==
  LET t == item.ticker
  IN  CASE t = "^GSPC"   -> [symbol |-> "SP500",  name |-> "S&P 500"]
        [] t = "GC=F"    -> [symbol |-> "GOLD",   name |-> "Gold"]
        [] t = "SI=F"    -> [symbol |-> "SILVER", name |-> "Silver"]
        [] t = "BTC-USD" -> [symbol |-> "BTC",    name |-> "Bitcoin"]
        [] t = "ETH-USD" -> [symbol |-> "ETH",    name |-> "Ethereum"]
        [] t = "KZT=X"   -> [symbol |-> "USDKZT", name |-> "USD/KZT"]
        [] OTHER         -> [symbol |-> t, name |-> t]

\* Normalize symbol names.
Normalize(item) ==
  LET t == item.ticker
  IN  CASE t = "^GSPC"   -> [symbol |-> "SP500",  name |-> "S&P 500"]
        [] t = "GC=F"    -> [symbol |-> "GOLD",   name |-> "Gold"]
        [] t = "SI=F"    -> [symbol |-> "SILVER", name |-> "Silver"]
        [] t = "BTC-USD" -> [symbol |-> "BTC",    name |-> "Bitcoin"]
        [] t = "ETH-USD" -> [symbol |-> "ETH",    name |-> "Ethereum"]
        [] t = "KZT=X"   -> [symbol |-> "USDKZT", name |-> "USD/KZT"]
        [] OTHER         -> [symbol |-> t, name |-> OrStr(item.name, t)]

\* The validation turning a wrong price into no price: the item is skipped.
ValidatedPriceDropped(sym, price) ==
  IF HasDefault(sym)
     /\ (price <= 0
         \/ 2 * price < DEFAULT_PRICES[sym].price
         \/ price > 2 * DEFAULT_PRICES[sym].price)
  THEN 0
  ELSE price

\* The validation with the two limits themselves counted as wrong.
ValidatedPriceExclusive(sym, price) ==
  IF HasDefault(sym)
     /\ (price <= 0
         \/ 2 * price <= DEFAULT_PRICES[sym].price
         \/ price >= 2 * DEFAULT_PRICES[sym].price)
  THEN DEFAULT_PRICES[sym].price
  ELSE price

\* "If price seems wrong, use default".
ValidatedPrice(sym, price) ==
  IF HasDefault(sym)
     /\ (price <= 0
         \/ 2 * price < DEFAULT_PRICES[sym].price
         \/ price > 2 * DEFAULT_PRICES[sym].price)
  THEN DEFAULT_PRICES[sym].price
  ELSE price

\* priceData with the price as the gateway gave it.
PriceDataUnvalidated(item) ==
  LET n  == Normalize(item)
      df == HasDefault(n.symbol)
  IN  [symbol    |-> n.symbol,
       name      |-> n.name,
       price     |-> item.price,
       change24h |-> Coalesce(item.changePercent,
                              IF df THEN Some(DEFAULT_PRICES[n.symbol].change24h) ELSE None),
       high24h   |-> Coalesce(item.high,
                              IF df THEN Some(DEFAULT_PRICES[n.symbol].high) ELSE None),
       low24h    |-> Coalesce(item.low,
                              IF df THEN Some(DEFAULT_PRICES[n.symbol].low) ELSE None),
       volume    |-> OrNull(item.volume)]

\* priceData of one snapshot item (pushed and stored when its price > 0).
PriceData(item) ==
  LET n  == Normalize(item)
      df == HasDefault(n.symbol)
  IN  [symbol    |-> n.symbol,
       name      |-> n.name,
       price     |-> ValidatedPrice(n.symbol, item.price),
       change24h |-> Coalesce(item.changePercent,
                              IF df THEN Some(DEFAULT_PRICES[n.symbol].change24h) ELSE None),
       high24h   |-> Coalesce(item.high,
                              IF df THEN Some(DEFAULT_PRICES[n.symbol].high) ELSE None),
       low24h    |-> Coalesce(item.low,
                              IF df THEN Some(DEFAULT_PRICES[n.symbol].low) ELSE None),
       volume    |-> OrNull(item.volume)]

\* The entry built from the static defaults of a symbol.
DefaultEntry(sym) ==
  [symbol    |-> sym,
   name      |-> IF sym \in DOMAIN SYMBOL_NAMES THEN SYMBOL_NAMES[sym] ELSE sym,
   price     |-> DEFAULT_PRICES[sym].price,
   change24h |-> Some(DEFAULT_PRICES[sym].change24h),
   high24h   |-> Some(DEFAULT_PRICES[sym].high),
   low24h    |-> Some(DEFAULT_PRICES[sym].low),
   volume    |-> None]

\* Object.entries(DEFAULT_PRICES).map(...)
DefaultList == [i \in 1..Len(DefaultSymbols) |-> DefaultEntry(DefaultSymbols[i])]

InList(ps, sym) == \E i \in 1..Len(ps) : ps[i].symbol = sym

\* The answer without the fill of the required symbols.
FillRequiredSkipped(ps, i) == ps

\* "Ensure we have all required symbols", over requiredSymbols[i..].
RECURSIVE FillRequired(_, _)
FillRequired(ps, i) ==
  IF i > Len(requiredSymbols) THEN ps
  ELSE LET sym == requiredSymbols[i]
       IN  FillRequired(IF ~InList(ps, sym) /\ HasDefault(sym)
                          THEN Append(ps, DefaultEntry(sym))
                          ELSE ps,
                        i + 1)

\* Whether the cache is recent: some row was updated after the limit.
hasRecent(cached, limit) == \E i \in 1..Len(cached) : cached[i].updatedAt > limit

\* The fallback serving whatever the cache holds, recent or not.
FallbackPricesAnyAge(ps, cached, limit) ==
  LET fromCache == IF Len(cached) > 0
                     THEN [i \in 1..Len(cached) |-> Fields(cached[i])]
                     ELSE ps
  IN  IF Len(fromCache) = 0 THEN DefaultList ELSE fromCache

\* The fallback keeping only the rows that are themselves recent.
FallbackPricesPerRow(ps, cached, limit) ==
  LET fresh     == SelectSeq(cached, LAMBDA r : r.updatedAt > limit)
      fromCache == IF Len(fresh) > 0
                     THEN [i \in 1..Len(fresh) |-> Fields(fresh[i])]
                     ELSE ps
  IN  IF Len(fromCache) = 0 THEN DefaultList ELSE fromCache

\* The prices after the fallback to the database cache or the defaults.
FallbackPrices(ps, cached, limit) ==
  LET fromCache == IF Len(cached) > 0 /\ hasRecent(cached, limit)
                     THEN [i \in 1..Len(cached) |-> Fields(cached[i])]
                     ELSE ps
  IN  IF Len(fromCache) = 0 THEN DefaultList ELSE fromCache

\* The JSON body of the success response.
OkResponse(ps, fallback) ==
  [status |-> 200, prices |-> FillRequired(ps, 1),
   source |-> IF fallback THEN "cache" ELSE "live"]

ErrorResponse == [status |-> 500, prices |-> <<>>, source |-> ""]

NoResponse == [status |-> 0, prices |-> <<>>, source |-> ""]

\* ------------------------------------------------------------------ state

VARIABLES
  store,        \* db.marketPrice
  now,          \* the clock, in hours
  started,      \* requests started so far
  gpc,          \* GET /api/market/prices: "idle", "loop", "fallback", "done"
  snapshotData, \* the items of the race's answer the for loop has yet to visit
  stage,        \* where snapshotData came from: "primary", "extracted", "timeout"
  prices,       \* the list being built
  usedFallback,
  dbErrors,     \* the positions in prices whose upsert threw ('DB error:' logged)
  cachedPrices, \* what findMany returned
  oneHourAgo,   \* the freshness limit the fallback computed
  response,     \* the response of the request
  rpc,          \* refresh: "idle", "prices", "rest", "done"
  rSnapshot,    \* refresh: the items of the snapshot the for loop has yet to visit
  results,      \* refresh: results.prices
  rLogged,      \* refresh: 'Error refreshing prices:' was logged
  rResponse,    \* refresh: the response
  call,         \* a single call of one function: its name and its arguments
  ret,          \* <<>> while the call has not returned, else <<what it returned>>
  abandoned,    \* the getSnapshots calls still running that lost their race
  dbCryptoNews, \* db.cryptoNews
  dbAnalysis,   \* db.analysis
  webSearch,    \* what the web_search function answers to a query at this moment
  feed,         \* the response of GET /api/crypto/news or /api/crypto/analysis
  dbPriceHistory, \* db.priceHistory
  lastRefresh,  \* db.appSetting, key 'lastRefresh'
  resultsRest,  \* refresh: results.news, results.analysis, results.history
  rLoggedRest,  \* refresh: the stages 2 to 4 whose catch logged an error
  rSkipped,     \* refresh: a catch (dbError) of stages 2 to 4 was entered
  first,        \* the news and analysis records when a refresh that skipped
                \* nothing first ended, timestamps left out
  fNow,         \* data-fetcher: the clock, in milliseconds
  lastFetchTime,
  nextFetchTime,
  inFlight,     \* data-fetcher: the fetchData calls awaiting, by who called
  fetched,      \* data-fetcher: how the fetchData calls that are over went
  triggerAnswer, \* data-fetcher: the last answer of /trigger
  crashed,      \* data-fetcher: a rejection nobody handled ended the process
  mounted,      \* dashboard: the effect has run
  loading,
  refreshing,
  error,        \* dashboard: an error message is shown
  lastUpdate,
  calls         \* dashboard: the fetchData calls awaiting, by mode

vars == <<store, now, started, gpc, snapshotData, stage, prices, usedFallback,
          dbErrors, cachedPrices, oneHourAgo, response, rpc, rSnapshot, results, rLogged,
          rResponse, call, ret, abandoned, dbCryptoNews, dbAnalysis, webSearch, feed,
          dbPriceHistory, lastRefresh, resultsRest, rLoggedRest, rSkipped, first,
          fNow, lastFetchTime, nextFetchTime, inFlight, fetched, triggerAnswer, crashed,
          mounted, loading, refreshing, error, lastUpdate, calls>>

getVars == <<gpc, snapshotData, stage, prices, usedFallback, dbErrors,
             cachedPrices, oneHourAgo, response>>

refreshVars == <<rpc, rSnapshot, results, rLogged, rResponse>>

fnVars == <<call, ret>>

raceVars == <<abandoned>>

\* The variables of the parts of the system the price requests and the price
\* stage of the refresh leave alone.
contentVars == <<dbCryptoNews, dbAnalysis, webSearch, feed>>

\* What the refresh keeps beyond the market prices: its locals and its tables.
stageLocals == <<resultsRest, rLoggedRest, rSkipped>>

stageVars == <<dbPriceHistory, lastRefresh, first>>

fetcherVars == <<fNow, lastFetchTime, nextFetchTime, inFlight, fetched, triggerAnswer,
                 crashed>>

dashVars == <<mounted, loading, refreshing, error, lastUpdate, calls>>

\* The data-fetcher service and the dashboard.
outerVars == <<fetcherVars, dashVars>>

auxVars == <<raceVars, contentVars, stageLocals, stageVars, outerVars>>

FetcherRest ==
  /\ fNow = 0
  /\ lastFetchTime = None
  /\ nextFetchTime = None
  /\ inFlight = [tick |-> 0, trigger |-> 0]
  /\ fetched = <<>>
  /\ triggerAnswer = ""
  /\ crashed = FALSE

DashRest ==
  /\ mounted = FALSE
  /\ loading = TRUE
  /\ refreshing = FALSE
  /\ error = FALSE
  /\ lastUpdate = None
  /\ calls = [load |-> 0, refresh |-> 0]

OuterRest == FetcherRest /\ DashRest

NoneYet == [news |-> FALSE, analysis |-> FALSE, history |-> FALSE]

StageRest ==
  /\ dbPriceHistory = <<>>
  /\ lastRefresh = None
  /\ resultsRest = NoneYet
  /\ rLoggedRest = NoneYet
  /\ rSkipped = FALSE
  /\ first = None

NoFeed == [route |-> "", status |-> 0, items |-> <<>>]

RaceRest == abandoned = 0

ContentRest ==
  /\ dbCryptoNews = <<>>
  /\ dbAnalysis = <<>>
  /\ webSearch = [kind |-> "absent", items |-> <<>>]
  /\ feed = NoFeed

\* Those parts at rest.
AuxInit ==
  /\ RaceRest
  /\ ContentRest
  /\ StageRest
  /\ OuterRest

NoCall == [fn |-> ""]

Row(sym, name, price, ch, hi, lo, vol, t) ==
  [symbol |-> sym, name |-> name, price |-> price, change24h |-> ch, high24h |-> hi,
   low24h |-> lo, volume |-> vol, updatedAt |-> t]

\* The database outlives the server: what earlier runs may have left in it when
\* the clock starts at hour 1.
InitStores ==
  { <<>>,
    <<Row("BTC", "Bitcoin", 9510000, Some(-40), Some(9600000), Some(9400000), None, 1)>>,
    <<Row("BTC", "Bitcoin", 9510000, Some(-40), Some(9600000), Some(9400000), None, 0),
      Row("ETH", "Ethereum", 280000, None, None, None, Some(12), 1)>> }

Init ==
  /\ store \in InitStores
  /\ now = 1
  /\ started = 0
  /\ gpc = "idle"
  /\ snapshotData = <<>>
  /\ stage = ""
  /\ prices = <<>>
  /\ usedFallback = FALSE
  /\ dbErrors = {}
  /\ cachedPrices = <<>>
  /\ oneHourAgo = 0
  /\ response = NoResponse
  /\ rpc = "idle"
  /\ rSnapshot = <<>>
  /\ results = FALSE
  /\ rLogged = FALSE
  /\ rResponse = NoResponse
  /\ call = NoCall
  /\ ret = <<>>
  /\ AuxInit

\* Time passes.
Tick ==
  /\ now < MaxClock
  /\ now' = now + 1
  /\ UNCHANGED <<store, started, getVars, refreshVars, fnVars, auxVars>>

\* ------------------------------------------ GET /api/market/prices, steps

\* The request arrives and the race of getSnapshots(symbols) against the
\* 20 s timeout is decided.
GetStart ==
  /\ gpc \in {"idle", "done"}
  /\ started < MaxRequests
  /\ started' = started + 1
  /\ prices' = <<>>
  /\ dbErrors' = {}
  /\ cachedPrices' = <<>>
  /\ oneHourAgo' = 0
  /\ response' = NoResponse
  /\ \/ \* the timeout wins: catch (apiError)
        /\ snapshotData' = <<>>
        /\ stage' = "timeout"
        /\ usedFallback' = TRUE
        /\ gpc' = "fallback"
     \/ \E primary \in PrimaryAnswers, search \in SearchWorlds :
          /\ snapshotData' = getSnapshots(symbols, primary, search)
          /\ stage' = SnapshotStage(primary)
          /\ usedFallback' = FALSE
          /\ gpc' = "loop"
  /\ UNCHANGED <<store, now, refreshVars, fnVars, auxVars>>

\* The for loop with the upsert outside any try of its own: a throwing upsert
\* lands in catch (apiError).
GetItemUnguarded ==
  /\ gpc = "loop"
  /\ Len(snapshotData) > 0
  /\ LET priceData == PriceData(Head(snapshotData))
     IN  IF priceData.price > 0
         THEN /\ prices' = Append(prices, priceData)
              /\ \/ /\ store' = upsert(store, priceData, now)
                    /\ snapshotData' = Tail(snapshotData)
                    /\ UNCHANGED <<dbErrors, usedFallback, gpc>>
                 \/ /\ dbErrors' = dbErrors \cup {Len(prices')}
                    /\ usedFallback' = TRUE
                    /\ gpc' = "fallback"
                    /\ UNCHANGED <<store, snapshotData>>
         ELSE /\ snapshotData' = Tail(snapshotData)
              /\ UNCHANGED <<prices, store, dbErrors, usedFallback, gpc>>
  /\ UNCHANGED <<now, started, stage, cachedPrices, oneHourAgo, response, refreshVars, fnVars, auxVars>>

\* One turn of the for loop: normalize, validate, push, upsert.
GetItem ==
  /\ gpc = "loop"
  /\ Len(snapshotData) > 0
  /\ snapshotData' = Tail(snapshotData)
  /\ LET priceData == PriceData(Head(snapshotData))
     IN  IF priceData.price > 0
         THEN /\ prices' = Append(prices, priceData)
              /\ \/ /\ store' = upsert(store, priceData, now)
                    /\ UNCHANGED dbErrors
                 \/ \* the upsert throws: catch (dbError)
                    /\ dbErrors' = dbErrors \cup {Len(prices')}
                    /\ UNCHANGED store
         ELSE UNCHANGED <<prices, store, dbErrors>>
  /\ UNCHANGED <<now, started, gpc, stage, usedFallback, cachedPrices, oneHourAgo,
                 response, refreshVars, fnVars, auxVars>>

\* After the loop: answer live, or turn to the fallback when nothing was pushed.
GetAfterLoop ==
  /\ gpc = "loop"
  /\ Len(snapshotData) = 0
  /\ IF Len(prices) = 0
     THEN /\ usedFallback' = TRUE
          /\ gpc' = "fallback"
          /\ UNCHANGED response
     ELSE /\ response' = OkResponse(prices, usedFallback)
          /\ gpc' = "done"
          /\ UNCHANGED usedFallback
  /\ UNCHANGED <<store, now, started, snapshotData, stage, prices, dbErrors,
                 cachedPrices, oneHourAgo, refreshVars, fnVars, auxVars>>

\* Fallback to database cache or default prices, then the answer.
GetFallback ==
  /\ gpc = "fallback"
  /\ gpc' = "done"
  /\ \/ /\ cachedPrices' = store
        /\ oneHourAgo' = now - OneHour
        /\ prices' = FallbackPrices(prices, store, now - OneHour)
        /\ response' = OkResponse(prices', usedFallback)
     \/ \* findMany throws: the outer catch
        /\ response' = ErrorResponse
        /\ UNCHANGED <<cachedPrices, oneHourAgo, prices>>
  /\ UNCHANGED <<store, now, started, snapshotData, stage, usedFallback, dbErrors,
                 refreshVars, fnVars, auxVars>>

\* --------------------------------------------------- /api/refresh, steps

\* What the price stage of the refresh upserts for one snapshot item: no
\* validation, x || null on every optional field.
RefreshData(item) ==
  LET n == Normalize(item)
  IN  [symbol    |-> n.symbol,
       name      |-> n.name,
       price     |-> item.price,
       change24h |-> OrNull(item.changePercent),
       high24h   |-> OrNull(item.high),
       low24h    |-> OrNull(item.low),
       volume    |-> OrNull(item.volume)]

\* The request arrives (POST, or GET which calls POST) and getSnapshots
\* answers, the gateway with one of answers, the search as in one of worlds.
RefreshStartWith(answers, worlds) ==
  /\ rpc \in {"idle", "done"}
  /\ started < MaxRequests
  /\ started' = started + 1
  /\ \E primary \in answers, search \in worlds :
       rSnapshot' = getSnapshots(symbols, primary, search)
  /\ results' = FALSE
  /\ rLogged' = FALSE
  /\ rResponse' = NoResponse
  /\ rpc' = "prices"
  /\ resultsRest' = NoneYet
  /\ rLoggedRest' = NoneYet
  /\ rSkipped' = FALSE
  /\ UNCHANGED <<store, now, getVars, fnVars, raceVars, outerVars, contentVars, stageVars>>

RefreshStart == RefreshStartWith(PrimaryAnswers, SearchWorlds)

\* One turn of the for loop of stage 1: normalize, upsert.  A throwing upsert
\* leaves the loop for the catch of the stage.
RefreshItem ==
  /\ rpc = "prices"
  /\ Len(rSnapshot) > 0
  /\ \/ /\ store' = upsert(store, RefreshData(Head(rSnapshot)), now)
        /\ rSnapshot' = Tail(rSnapshot)
        /\ UNCHANGED <<rpc, rLogged>>
     \/ /\ rLogged' = TRUE
        /\ rpc' = "rest"
        /\ UNCHANGED <<store, rSnapshot>>
  /\ UNCHANGED <<now, started, results, rResponse, getVars, fnVars, auxVars>>

\* The loop of stage 1 is over: results.prices = true.
RefreshPricesDone ==
  /\ rpc = "prices"
  /\ Len(rSnapshot) = 0
  /\ results' = TRUE
  /\ rpc' = "rest"
  /\ UNCHANGED <<store, now, started, rSnapshot, rLogged, rResponse, getVars, fnVars, auxVars>>

\* Stages 2 to 4 (they write no market price), the lastRefresh setting and the
\* answer; a throwing appSetting.upsert gives the 500 answer.
RefreshRest ==
  /\ rpc = "rest"
  /\ rpc' = "done"
  /\ \/ rResponse' = [status |-> 200, prices |-> <<>>, source |-> ""]
     \/ rResponse' = ErrorResponse
  /\ UNCHANGED <<store, now, started, rSnapshot, results, rLogged, getVars, fnVars, auxVars>>

\* ---------------------------------------------------------- specification

Next ==
  \/ Tick
  \/ GetStart
  \/ GetItem
  \/ GetAfterLoop
  \/ GetFallback
  \/ RefreshStart
  \/ RefreshItem
  \/ RefreshPricesDone
  \/ RefreshRest

Spec == Init /\ [][Next]_vars

\* ------------------------------------------------------------- web-search

\* The most results the search service gives for one query.
MaxResults == 2

\* What the search service can return: two pages with the same url and
\* different dates, and another page.
SearchItems ==
  { [url |-> "a", date |-> 1], [url |-> "b", date |-> 2], [url |-> "a", date |-> 2] }

\* The outcomes of one web_search call: it throws, it returns nothing
\* (null or undefined), or it returns a list of results, possibly empty.
SearchOutcomes ==
  { [kind |-> "error", items |-> <<>>], [kind |-> "absent", items |-> <<>>] }
    \cup {[kind |-> "list", items |-> l] : l \in SeqsUpTo(SearchItems, MaxResults)}

\* What a call gives its caller: a value, or an exception.
Returned(v) == [threw |-> FALSE, value |-> v]

Thrown == [threw |-> TRUE, value |-> <<>>]

\* searchWeb without its catch.
searchWebUncaught(out) ==
  IF out.kind = "error" THEN Thrown
  ELSE IF out.kind = "absent" THEN Returned(<<>>)
  ELSE Returned(out.items)

\* Search the web for information: results || [], and [] from the catch.
searchWeb(out) ==
  IF out.kind = "list" THEN Returned(out.items) ELSE Returned(<<>>)

\* for (const query of queries) allResults.push(...await searchWeb(query)),
\* over outs[i..].
RECURSIVE AllResults(_, _)
AllResults(outs, i) ==
  IF i > Len(outs) THEN Returned(<<>>)
  ELSE LET res  == searchWeb(outs[i])
           rest == AllResults(outs, i + 1)
       IN  IF res.threw \/ rest.threw THEN Thrown
           ELSE Returned(res.value \o rest.value)

\* Deduplicate by URL: the first item of each url stays.
Unique(items) ==
  SelectSeq([i \in 1..Len(items) |-> [item |-> items[i], first |->
               \A j \in 1..(i - 1) : items[j].url # items[i].url]],
            LAMBDA x : x.first)

UniqueItems(items) == [i \in 1..Len(Unique(items)) |-> Unique(items)[i].item]

\* Sort by date, most recent first; the sort is stable.
RECURSIVE SortByDate(_)
SortByDate(items) ==
  IF Len(items) = 0 THEN <<>>
  ELSE LET top  == CHOOSE i \in 1..Len(items) :
                     /\ \A j \in 1..Len(items) : items[j].date <= items[i].date
                     /\ \A j \in 1..(i - 1) : items[j].date < items[i].date
           rest == [j \in 1..(Len(items) - 1) |->
                      IF j < top THEN items[j] ELSE items[j + 1]]
       IN  <<items[top]>> \o SortByDate(rest)

\* slice(0, num)
Slice(items, num) == SubSeq(items, 1, IF num < Len(items) THEN num ELSE Len(items))

\* Search for cryptocurrency news: outs are the outcomes of the three queries.
searchCryptoNews(num, outs) ==
  LET allResults == AllResults(outs, 1)
  IN  IF allResults.threw THEN Thrown
      ELSE Returned(Slice(SortByDate(UniqueItems(allResults.value)), num))

\* Search for crypto price predictions.
searchCryptoPredictions(num, outs) ==
  LET allResults == AllResults(outs, 1)
  IN  IF allResults.threw THEN Thrown
      ELSE Returned(Slice(UniqueItems(allResults.value), num))

\* ------------------------------------------ single calls of the functions

\* The most numbers one search's snippets hold.
MaxNums == 2

\* The tickers an item can carry: the six of the batch, one outside every
\* table, and one that already is a canonical symbol.
FnTickers == {"^GSPC", "GC=F", "SI=F", "BTC-USD", "ETH-USD", "KZT=X", "GLD", "BTC"}

\* The prices around the limits of the validation against the default d:
\* missing or negative, tiny, 0.4 d, just below and at d / 2, d, at and just
\* above 2 d, 2.1 d.
PricesAround(d) ==
  {-500, 0, 1, (2 * d) \div 5, (d - 1) \div 2, (d + 1) \div 2, d, 2 * d, 2 * d + 1,
   (21 * d) \div 10}

\* The prices of an item whose symbol has no default.
FreePrices == {-500, 0, 1, 25000}

\* The items a loop body can meet.
FnItems ==
  { [ticker |-> t, name |-> n, price |-> p,
     changePercent |-> IF full THEN Some(110) ELSE None,
     high |-> IF full THEN Some(9700000) ELSE None,
     low |-> IF full THEN Some(9500000) ELSE None,
     volume |-> IF full THEN Some(2000) ELSE None] :
      t \in FnTickers, n \in {"", "Upstream name"}, full \in BOOLEAN,
      p \in UNION {PricesAround(DEFAULT_PRICES[s].price) : s \in DOMAIN DEFAULT_PRICES}
              \cup FreePrices }

\* The item is priced around the default of its own symbol, or freely when the
\* symbol has none.
PricedForItsSymbol(item) ==
  LET sym == Normalize(item).symbol
  IN  IF HasDefault(sym)
      THEN item.price \in PricesAround(DEFAULT_PRICES[sym].price)
      ELSE item.price \in FreePrices

\* The numbers a snippet text can hold for a ticker with the given range: the
\* number pattern takes no sign, so none is negative.
NumsAround(range) ==
  {0, range.min - 1, range.min, Midpoint(range) - 1, Midpoint(range),
   Midpoint(range) + 1, range.max, range.max + 1}

\* What one web search can give for a ticker.
SearchResults(range) ==
  {NoResults}
    \cup { [found |-> TRUE, nums |-> ns, high |-> h, low |-> l, change |-> c] :
             ns \in SeqsUpTo(NumsAround(range), MaxNums),
             h \in {None, Some(0), Some(Midpoint(range)), Some(range.max + 1)},
             l \in {None, Some(0), Some(Midpoint(range)), Some(range.max + 1)},
             c \in {None, Some(-120)} }

NormalizeCalls ==
  {[fn |-> "normalize", item |-> x] : x \in {y \in FnItems : y.price = 25000}}

PriceDataCalls ==
  {[fn |-> "priceData", item |-> x] : x \in {y \in FnItems : PricedForItsSymbol(y)}}

ExtractCalls(t) ==
  {[fn |-> "getPriceViaWebSearch", symbol |-> t, res |-> r] :
     r \in SearchResults(PRICE_RANGES[t])}

\* The num a caller asks searchCryptoNews or searchCryptoPredictions for.
SearchNums == {1, 2}

SearchWebCalls == {[fn |-> "searchWeb", out |-> o] : o \in SearchOutcomes}

SearchAllCalls(fn, num) ==
  {[fn |-> fn, num |-> num, outs |-> <<o1, o2, o3>>] :
     o1 \in SearchOutcomes, o2 \in SearchOutcomes, o3 \in SearchOutcomes}

\* One call is about to be made; the store is what earlier runs left.
InitFn ==
  /\ \/ call \in PriceDataCalls /\ store \in InitStores
     \/ call \in SearchWebCalls /\ store = <<>>
     \/ \E fn \in {"searchCryptoNews", "searchCryptoPredictions"}, num \in SearchNums :
          call \in SearchAllCalls(fn, num) /\ store = <<>>
     \/ call \in NormalizeCalls /\ store = <<>>
     \/ \E t \in DOMAIN PRICE_RANGES : call \in ExtractCalls(t) /\ store = <<>>
  /\ ret = <<>>
  /\ AuxInit
  /\ now = 1
  /\ started = 0
  /\ gpc = "idle"
  /\ snapshotData = <<>>
  /\ stage = ""
  /\ prices = <<>>
  /\ usedFallback = FALSE
  /\ dbErrors = {}
  /\ cachedPrices = <<>>
  /\ oneHourAgo = 0
  /\ response = NoResponse
  /\ rpc = "idle"
  /\ rSnapshot = <<>>
  /\ results = FALSE
  /\ rLogged = FALSE
  /\ rResponse = NoResponse

\* The loop body names the item: canonical symbol and display name.
ApplyNormalize ==
  /\ call.fn = "normalize"
  /\ ret = <<>>
  /\ ret' = <<Normalize(call.item)>>
  /\ UNCHANGED <<store, now, started, getVars, refreshVars, call, auxVars>>

\* The loop body validates the price and builds priceData; the entry is pushed
\* when its price is > 0.
ApplyPriceData ==
  /\ call.fn = "priceData"
  /\ ret = <<>>
  /\ ret' = <<[data   |-> PriceData(call.item),
               pushed |-> PriceData(call.item).price > 0]>>
  /\ UNCHANGED <<store, now, started, getVars, refreshVars, call, auxVars>>

\* getSnapshots asks the web search for one ticker of the batch.
ApplyExtract ==
  /\ call.fn = "getPriceViaWebSearch"
  /\ ret = <<>>
  /\ ret' = <<getPriceViaWebSearch(call.symbol, symbolNames[call.symbol], call.res)>>
  /\ UNCHANGED <<store, now, started, getVars, refreshVars, call, auxVars>>

\* A caller searches the web with one query.
ApplySearchWeb ==
  /\ call.fn = "searchWeb"
  /\ ret = <<>>
  /\ ret' = <<searchWeb(call.out)>>
  /\ UNCHANGED <<store, now, started, getVars, refreshVars, call, auxVars>>

\* The news route or the refresh asks for the news.
ApplySearchCryptoNews ==
  /\ call.fn = "searchCryptoNews"
  /\ ret = <<>>
  /\ ret' = <<searchCryptoNews(call.num, call.outs)>>
  /\ UNCHANGED <<store, now, started, getVars, refreshVars, call, auxVars>>

\* The analysis route or the refresh asks for the predictions.
ApplySearchCryptoPredictions ==
  /\ call.fn = "searchCryptoPredictions"
  /\ ret = <<>>
  /\ ret' = <<searchCryptoPredictions(call.num, call.outs)>>
  /\ UNCHANGED <<store, now, started, getVars, refreshVars, call, auxVars>>

NextFn ==
  \/ ApplyNormalize
  \/ ApplyPriceData
  \/ ApplyExtract
  \/ ApplySearchWeb
  \/ ApplySearchCryptoNews
  \/ ApplySearchCryptoPredictions

SpecFn == InitFn /\ [][NextFn]_vars

\* ------------------------- GET /api/market/prices, the race step by step

\* The request arrives: getSnapshots(symbols) is called and raced against the
\* 20 s timer.
RaceStart ==
  /\ gpc \in {"idle", "done"}
  /\ started < MaxRequests
  /\ started' = started + 1
  /\ gpc' = "race"
  /\ snapshotData' = <<>>
  /\ stage' = ""
  /\ prices' = <<>>
  /\ usedFallback' = FALSE
  /\ dbErrors' = {}
  /\ cachedPrices' = <<>>
  /\ oneHourAgo' = 0
  /\ response' = NoResponse
  /\ UNCHANGED <<store, now, refreshVars, fnVars, auxVars>>

\* getSnapshots answers before the timer fires.
RaceAnswer ==
  /\ gpc = "race"
  /\ \E primary \in PrimaryAnswers, search \in SearchWorlds :
       /\ snapshotData' = getSnapshots(symbols, primary, search)
       /\ stage' = SnapshotStage(primary)
  /\ gpc' = "loop"
  /\ UNCHANGED <<store, now, started, prices, usedFallback, dbErrors, cachedPrices,
                 oneHourAgo, response, refreshVars, fnVars, auxVars>>

\* The timer fires first: catch (apiError).  getSnapshots keeps running.
RaceTimeout ==
  /\ gpc = "race"
  /\ stage' = "timeout"
  /\ usedFallback' = TRUE
  /\ gpc' = "fallback"
  /\ abandoned' = abandoned + 1
  /\ UNCHANGED <<store, now, started, snapshotData, prices, dbErrors, cachedPrices,
                 oneHourAgo, response, refreshVars, fnVars, contentVars,
                 stageLocals, stageVars, outerVars>>

\* A late answer that is run through the loop's upsert all the same.
LateAnswerStored ==
  /\ abandoned > 0
  /\ abandoned' = abandoned - 1
  /\ \E primary \in PrimaryAnswers, search \in SearchWorlds :
       LET data == getSnapshots(symbols, primary, search)
       IN  store' = IF Len(data) > 0 /\ PriceData(Head(data)).price > 0
                    THEN upsert(store, PriceData(Head(data)), now)
                    ELSE store
  /\ UNCHANGED <<now, started, getVars, refreshVars, fnVars, contentVars,
                 stageLocals, stageVars, outerVars>>

\* A getSnapshots call that lost its race answers: the race is settled, the
\* answer goes nowhere.
LateAnswer ==
  /\ abandoned > 0
  /\ abandoned' = abandoned - 1
  /\ UNCHANGED <<store, now, started, getVars, refreshVars, fnVars, contentVars,
                 stageLocals, stageVars, outerVars>>

NextRace ==
  \/ RaceStart
  \/ RaceAnswer
  \/ RaceTimeout
  \/ LateAnswer
  \/ GetItem
  \/ GetAfterLoop
  \/ GetFallback

SpecRace == Init /\ [][NextRace]_vars


\* ------------------------------------------- the news and analysis routes

\* The base variables of a system that has served no price request.
AtRest ==
  /\ now = 1
  /\ started = 0
  /\ gpc = "idle"
  /\ snapshotData = <<>>
  /\ stage = ""
  /\ prices = <<>>
  /\ usedFallback = FALSE
  /\ dbErrors = {}
  /\ cachedPrices = <<>>
  /\ oneHourAgo = 0
  /\ response = NoResponse
  /\ rpc = "idle"
  /\ rSnapshot = <<>>
  /\ results = FALSE
  /\ rLogged = FALSE
  /\ rResponse = NoResponse
  /\ call = NoCall
  /\ ret = <<>>

\* item.date || new Date()
DateOr(item, t) == IF item.date = 0 THEN t ELSE item.date

\* The rows of the latest dates first, at most take of them.
RecentFirst(dated, take) ==
  LET sorted == SortByDate(dated)
  IN  Slice([i \in 1..Len(sorted) |-> sorted[i].row], take)

\* findMany({ orderBy: { publishedAt: 'desc' }, take })
RecentNews(table, take) ==
  RecentFirst([i \in 1..Len(table) |-> [date |-> table[i].publishedAt, row |-> table[i]]],
              take)

\* findMany({ orderBy: { createdAt: 'desc' }, take })
RecentAnalysis(table, take) ==
  RecentFirst([i \in 1..Len(table) |-> [date |-> table[i].createdAt, row |-> table[i]]],
              take)

\* The news entry of a search result.
NewsEntry(item, t) == [url |-> item.url, publishedAt |-> DateOr(item, t)]

\* db.cryptoNews.upsert({ where: { url } }): the row of the url is updated, or
\* a row is created.
upsertNews(table, entry) ==
  IF \E i \in 1..Len(table) : table[i].url = entry.url
  THEN [i \in 1..Len(table) |->
          IF table[i].url = entry.url THEN entry ELSE table[i]]
  ELSE Append(table, entry)

\* for (const item of entries) { try { upsert } catch (dbError) { } }: the
\* upserts at the positions in failed throw, from position i on.
RECURSIVE StoreNews(_, _, _, _)
StoreNews(table, entries, failed, i) ==
  IF i > Len(entries) THEN table
  ELSE StoreNews(IF i \in failed THEN table ELSE upsertNews(table, entries[i]),
                 entries, failed, i + 1)

\* The analysis entry of a search result; a page is named by its url.
AnalysisEntry(item, type, t) ==
  [title |-> item.url, type |-> type, createdAt |-> DateOr(item, t)]

\* db.analysis.create({ data }): a row is added, created now.
createAnalysis(table, entry, t) ==
  Append(table, [title |-> entry.title, type |-> entry.type, createdAt |-> t])

RECURSIVE StoreAnalysis(_, _, _, _, _)
StoreAnalysis(table, entries, failed, i, t) ==
  IF i > Len(entries) THEN table
  ELSE StoreAnalysis(IF i \in failed THEN table ELSE createAnalysis(table, entries[i], t),
                     entries, failed, i + 1, t)

\* The three queries of a search get what the service answers at this moment.
Queries == <<webSearch, webSearch, webSearch>>

\* searchMarketAnalysis
searchMarketAnalysis == searchWeb(webSearch)

\* GET /api/crypto/news: the fresh news are stored and returned; the catch of
\* a throwing search reads the cache, and a throwing findMany gives the 500.
GetNews ==
  /\ started < MaxRequests
  /\ started' = started + 1
  /\ LET searchResults == searchCryptoNews(20, Queries)
         news == [i \in 1..Len(searchResults.value) |->
                    NewsEntry(searchResults.value[i], now)]
     IN  IF ~searchResults.threw
         THEN /\ \E failed \in SUBSET (1..Len(Slice(news, 15))) :
                   dbCryptoNews' = StoreNews(dbCryptoNews, Slice(news, 15), failed, 1)
              /\ feed' = [route |-> "news", status |-> 200, items |-> news]
         ELSE /\ \/ feed' = [route |-> "news", status |-> 200,
                             items |-> RecentNews(dbCryptoNews, 20)]
                 \/ feed' = [route |-> "news", status |-> 500, items |-> <<>>]
              /\ UNCHANGED dbCryptoNews
  /\ UNCHANGED <<store, now, getVars, refreshVars, fnVars, raceVars, outerVars, stageLocals, stageVars, dbAnalysis, webSearch>>

\* GET /api/crypto/analysis: predictions and analysis are searched together,
\* the first ten are stored, all are returned.
GetAnalysis ==
  /\ started < MaxRequests
  /\ started' = started + 1
  /\ LET predictions == searchCryptoPredictions(10, Queries)
         analysisResults == searchMarketAnalysis
         analysis ==
           [i \in 1..Len(predictions.value) |->
              AnalysisEntry(predictions.value[i], "prediction", now)]
           \o [i \in 1..Len(analysisResults.value) |->
                 AnalysisEntry(analysisResults.value[i], "analysis", now)]
     IN  IF ~predictions.threw /\ ~analysisResults.threw
         THEN /\ \E failed \in SUBSET (1..Len(Slice(analysis, 10))) :
                   dbAnalysis' = StoreAnalysis(dbAnalysis, Slice(analysis, 10), failed, 1, now)
              /\ feed' = [route |-> "analysis", status |-> 200, items |-> analysis]
         ELSE /\ \/ feed' = [route |-> "analysis", status |-> 200,
                             items |-> RecentAnalysis(dbAnalysis, 20)]
                 \/ feed' = [route |-> "analysis", status |-> 500, items |-> <<>>]
              /\ UNCHANGED dbAnalysis
  /\ UNCHANGED <<store, now, getVars, refreshVars, fnVars, raceVars, outerVars, stageLocals, stageVars, dbCryptoNews, webSearch>>

\* The search service changes: it fails, answers nothing, or answers a list.
SearchChanges ==
  /\ webSearch' \in SearchOutcomes \ {webSearch}
  /\ UNCHANGED <<store, now, started, getVars, refreshVars, fnVars, raceVars, outerVars, stageLocals, stageVars,
                 dbCryptoNews, dbAnalysis, feed>>

\* What earlier requests may have left in db.cryptoNews and db.analysis.
InitNews ==
  { <<>>,
    <<[url |-> "a", publishedAt |-> 1]>>,
    <<[url |-> "c", publishedAt |-> 0], [url |-> "a", publishedAt |-> 1]>> }

InitAnalysis ==
  { <<>>,
    <<[title |-> "a", type |-> "prediction", createdAt |-> 0],
      [title |-> "c", type |-> "analysis", createdAt |-> 1]>> }

InitFeed ==
  /\ AtRest
  /\ store = <<>>
  /\ RaceRest
  /\ dbCryptoNews \in InitNews
  /\ dbAnalysis \in InitAnalysis
  /\ webSearch \in SearchOutcomes
  /\ feed = NoFeed
  /\ StageRest
  /\ OuterRest

NextFeed ==
  \/ Tick
  \/ GetNews
  \/ GetAnalysis
  \/ SearchChanges

SpecFeed == InitFeed /\ [][NextFeed]_vars


\* ------------------------------------- /api/refresh, stages 2 to 4, steps

\* The search service never answers.
Hang == [kind |-> "hang", items |-> <<>>]

\* The records of a table, timestamps left out.
UntimedNews(table) == [i \in 1..Len(table) |-> table[i].url]

UntimedAnalysis(table) ==
  [i \in 1..Len(table) |-> [title |-> table[i].title, type |-> table[i].type]]

\* Stage 2: the news are searched; the first 15 are upserted, a throwing
\* upsert is skipped; results.news = true.  A throwing search is logged by
\* the catch of the stage.
RefreshNews ==
  /\ rpc = "rest"
  /\ webSearch.kind # "hang"
  /\ LET searchResults == searchCryptoNews(20, Queries)
         news == [i \in 1..Len(searchResults.value) |->
                    NewsEntry(searchResults.value[i], now)]
     IN  IF ~searchResults.threw
         THEN /\ \E failed \in SUBSET (1..Len(Slice(news, 15))) :
                   /\ dbCryptoNews' = StoreNews(dbCryptoNews, Slice(news, 15), failed, 1)
                   /\ rSkipped' = (rSkipped \/ failed # {})
              /\ resultsRest' = [resultsRest EXCEPT !.news = TRUE]
              /\ UNCHANGED rLoggedRest
         ELSE /\ rLoggedRest' = [rLoggedRest EXCEPT !.news = TRUE]
              /\ UNCHANGED <<dbCryptoNews, rSkipped, resultsRest>>
  /\ rpc' = "analysis"
  /\ UNCHANGED <<store, now, started, rSnapshot, results, rLogged, rResponse, getVars,
                 fnVars, raceVars, outerVars, dbAnalysis, webSearch, feed, stageVars>>

\* Stage 3: predictions and analysis are searched together; the first 10 are
\* created, a throwing create is skipped; results.analysis = true.
RefreshAnalysis ==
  /\ rpc = "analysis"
  /\ webSearch.kind # "hang"
  /\ LET predictions == searchCryptoPredictions(10, Queries)
         analysisResults == searchMarketAnalysis
         allItems ==
           [i \in 1..Len(predictions.value) |->
              AnalysisEntry(predictions.value[i], "prediction", now)]
           \o [i \in 1..Len(analysisResults.value) |->
                 AnalysisEntry(analysisResults.value[i], "analysis", now)]
     IN  IF ~predictions.threw /\ ~analysisResults.threw
         THEN /\ \E failed \in SUBSET (1..Len(Slice(allItems, 10))) :
                   /\ dbAnalysis' = StoreAnalysis(dbAnalysis, Slice(allItems, 10), failed, 1, now)
                   /\ rSkipped' = (rSkipped \/ failed # {})
              /\ resultsRest' = [resultsRest EXCEPT !.analysis = TRUE]
              /\ UNCHANGED rLoggedRest
         ELSE /\ rLoggedRest' = [rLoggedRest EXCEPT !.analysis = TRUE]
              /\ UNCHANGED <<dbAnalysis, rSkipped, resultsRest>>
  /\ rpc' = "history"
  /\ UNCHANGED <<store, now, started, rSnapshot, results, rLogged, rResponse, getVars,
                 fnVars, raceVars, outerVars, dbCryptoNews, webSearch, feed, stageVars>>

\* The symbols whose history is stored, by the name of their rows.
historySymbols == <<"BTC", "ETH", "USDKZT">>

\* What getHistory gives for a symbol: the candles of the gateway, and none
\* when the gateway failed or answered without a body.
Histories == { <<>>, <<[timestamp |-> 1]>> }

\* for (const candle of history) { try { create } catch (dbError) { } }
RECURSIVE StoreHistory(_, _, _, _, _)
StoreHistory(table, name, history, failed, i) ==
  IF i > Len(history) THEN table
  ELSE StoreHistory(IF i \in failed THEN table
                    ELSE Append(table, [symbol |-> name, timestamp |-> history[i].timestamp]),
                    name, history, failed, i + 1)

\* for (const { symbol, name } of historySymbols), from symbol s on; the
\* create of a candle of the symbols in failing throws.
RECURSIVE StoreHistories(_, _, _, _)
StoreHistories(table, histories, failing, s) ==
  IF s > Len(historySymbols) THEN table
  ELSE StoreHistories(
         StoreHistory(table, historySymbols[s], histories[s],
                      IF s \in failing THEN 1..Len(histories[s]) ELSE {}, 1),
         histories, failing, s + 1)

\* Stage 4: the history of three symbols is asked for and its candles are
\* created; results.history = true.
RefreshHistory ==
  /\ rpc = "history"
  /\ \E history \in Histories, failing \in {{}, 1..Len(historySymbols)} :
       LET histories == [s \in 1..Len(historySymbols) |-> history]
       IN
       /\ failing # {} => Len(history) > 0
       /\ dbPriceHistory' = StoreHistories(dbPriceHistory, histories, failing, 1)
       /\ rSkipped' = (rSkipped \/ failing # {})
  /\ resultsRest' = [resultsRest EXCEPT !.history = TRUE]
  /\ rpc' = "setting"
  /\ UNCHANGED <<store, now, started, rSnapshot, results, rLogged, rResponse, getVars,
                 fnVars, raceVars, outerVars, contentVars, rLoggedRest, lastRefresh, first>>

\* The setting written and the answer given when stage 1 is over.
RefreshSettingEarly ==
  /\ rpc = "rest"
  /\ rpc' = "done"
  /\ lastRefresh' = Some(now)
  /\ rResponse' = [status |-> 200, prices |-> <<>>, source |-> ""]
  /\ UNCHANGED <<store, now, started, rSnapshot, results, rLogged, getVars,
                 fnVars, raceVars, outerVars, contentVars, stageLocals, dbPriceHistory, first>>

\* Update last refresh time, and answer: success with the four flags; a
\* throwing appSetting.upsert gives the 500 answer.
RefreshSetting ==
  /\ rpc = "setting"
  /\ rpc' = "done"
  /\ \/ /\ lastRefresh' = Some(now)
        /\ rResponse' = [status |-> 200, prices |-> <<>>, source |-> ""]
     \/ /\ rResponse' = ErrorResponse
        /\ UNCHANGED lastRefresh
  /\ first' = IF first = None /\ ~rSkipped
              THEN Some([news |-> UntimedNews(dbCryptoNews),
                         analysis |-> UntimedAnalysis(dbAnalysis)])
              ELSE first
  /\ UNCHANGED <<store, now, started, rSnapshot, results, rLogged, getVars,
                 fnVars, raceVars, outerVars, contentVars, stageLocals, dbPriceHistory>>

\* While the stages are looked at, the gateway fails, or answers with a
\* quote, or with a quote and an item without a usable price; the search
\* finds no price.
StageAnswers ==
  { a \in PrimaryAnswers :
      \/ ~a.ok
      \/ /\ Len(a.data) > 0
         /\ a.data[1].ticker = "BTC-USD" /\ a.data[1].name # ""
         /\ \A i \in 2..Len(a.data) : a.data[i].ticker = "ETH-USD" }

\* The search service fails, hangs, or answers every query with the same
\* result, throughout.
StageSearches ==
  { o \in SearchOutcomes : o.kind = "error" \/ Len(o.items) = 1 } \cup {Hang}

RefreshStartStages == RefreshStartWith(StageAnswers, {SearchDown})

InitRefresh ==
  /\ AtRest
  /\ store = <<>>
  /\ RaceRest
  /\ dbCryptoNews = <<>>
  /\ dbAnalysis = <<>>
  /\ webSearch \in StageSearches
  /\ feed = NoFeed
  /\ StageRest
  /\ OuterRest

NextRefresh ==
  \/ Tick
  \/ RefreshStartStages
  \/ RefreshItem
  \/ RefreshPricesDone
  \/ RefreshNews
  \/ RefreshAnalysis
  \/ RefreshHistory
  \/ RefreshSetting

\* Every continuation that is ready is run.
SpecRefresh == InitRefresh /\ [][NextRefresh]_vars /\ WF_vars(NextRefresh)


\* ------------------------------------------------- the data-fetcher service

\* How the call of the refresh endpoint can go: fetch rejects, the body of
\* the answer does not parse, or it parses.
FetchOutcomes == {"threw", "unparsable", "parsed"}

\* fetchData without its catch.
fetchDataUncaught(outcome) ==
  [threw |-> outcome # "parsed", set |-> outcome = "parsed"]

\* fetchData: whether it rejects, and whether it sets the two times.
fetchData(outcome) ==
  [threw |-> FALSE, set |-> outcome = "parsed"]

\* Time passes.
FetcherClock ==
  /\ fNow < MaxMillis
  /\ fNow' = fNow + 1
  /\ UNCHANGED <<lastFetchTime, nextFetchTime, inFlight, fetched, triggerAnswer, crashed>>
  /\ UNCHANGED <<store, now, started, getVars, refreshVars, fnVars, raceVars, contentVars,
                 stageLocals, stageVars, dashVars>>

\* The timer of the start or of the interval fires: fetchData is called and
\* awaits the refresh endpoint.
FetcherTick ==
  /\ ~crashed
  /\ started < MaxRequests
  /\ started' = started + 1
  /\ inFlight' = [inFlight EXCEPT !.tick = @ + 1]
  /\ UNCHANGED <<fNow, lastFetchTime, nextFetchTime, fetched, triggerAnswer, crashed>>
  /\ UNCHANGED <<store, now, getVars, refreshVars, fnVars, raceVars, contentVars,
                 stageLocals, stageVars, dashVars>>

\* A request for /trigger arrives: the handler awaits fetchData.
TriggerArrives ==
  /\ ~crashed
  /\ started < MaxRequests
  /\ started' = started + 1
  /\ inFlight' = [inFlight EXCEPT !.trigger = @ + 1]
  /\ UNCHANGED <<fNow, lastFetchTime, nextFetchTime, fetched, triggerAnswer, crashed>>
  /\ UNCHANGED <<store, now, getVars, refreshVars, fnVars, raceVars, contentVars,
                 stageLocals, stageVars, dashVars>>

\* The call of the refresh endpoint of one fetchData is over.  A parsed body
\* sets lastFetchTime from one reading of the clock and nextFetchTime from
\* the next, late milliseconds after.  The handler of /trigger then answers;
\* a rejection of a call of a timer is handled by nobody.
FetchOver(caller) ==
  /\ ~crashed
  /\ inFlight[caller] > 0
  /\ inFlight' = [inFlight EXCEPT ![caller] = @ - 1]
  /\ \E outcome \in FetchOutcomes, late \in {0, 1} :
       LET done == fetchData(outcome)
       IN  /\ fetched' = Append(fetched, outcome)
           /\ IF done.set
              THEN /\ fNow + late <= MaxMillis
                   /\ lastFetchTime' = Some(fNow)
                   /\ nextFetchTime' = Some(fNow + late + REFRESH_INTERVAL)
                   /\ fNow' = fNow + late
              ELSE /\ late = 0
                   /\ UNCHANGED <<fNow, lastFetchTime, nextFetchTime>>
           /\ triggerAnswer' =
                IF caller # "trigger" THEN triggerAnswer
                ELSE IF done.threw THEN "error" ELSE "triggered"
           /\ crashed' = (caller = "tick" /\ done.threw)
  /\ UNCHANGED <<store, now, started, getVars, refreshVars, fnVars, raceVars, contentVars,
                 stageLocals, stageVars, dashVars>>

TickFetchOver == FetchOver("tick")

TriggerFetchOver == FetchOver("trigger")

InitFetcher ==
  /\ AtRest
  /\ store = <<>>
  /\ RaceRest
  /\ ContentRest
  /\ StageRest
  /\ OuterRest

NextFetcher ==
  \/ FetcherClock
  \/ FetcherTick
  \/ TriggerArrives
  \/ TickFetchOver
  \/ TriggerFetchOver

SpecFetcher == InitFetcher /\ [][NextFetcher]_vars


\* ----------------------------------------------------------- the dashboard

\* fetchData(isRefresh) up to its await: one of the two flags is set.
CallStarts(mode) ==
  /\ started < MaxCalls
  /\ started' = started + 1
  /\ calls' = [calls EXCEPT ![mode] = @ + 1]
  /\ error' = FALSE
  /\ UNCHANGED lastUpdate
  /\ IF mode = "refresh"
     THEN refreshing' = TRUE /\ UNCHANGED loading
     ELSE loading' = TRUE /\ UNCHANGED refreshing

\* The effect runs once, when the dashboard is mounted: fetchData().
Mount ==
  /\ ~mounted
  /\ mounted' = TRUE
  /\ CallStarts("load")
  /\ UNCHANGED <<store, now, getVars, refreshVars, fnVars, raceVars, contentVars,
                 stageLocals, stageVars, fetcherVars>>

\* The 5-minute interval fires: fetchData(true).
AutoRefresh ==
  /\ mounted
  /\ CallStarts("refresh")
  /\ UNCHANGED <<mounted, store, now, getVars, refreshVars, fnVars, raceVars, contentVars,
                 stageLocals, stageVars, fetcherVars>>

\* The Refresh button, disabled while refreshing, is clicked: fetchData(true).
ManualRefresh ==
  /\ mounted
  /\ ~refreshing
  /\ CallStarts("refresh")
  /\ UNCHANGED <<mounted, store, now, getVars, refreshVars, fnVars, raceVars, contentVars,
                 stageLocals, stageVars, fetcherVars>>

\* The three fetches of a call are over and the time of the update is set,
\* or one of them rejected and the catch sets the error; the finally clears
\* both flags.
CallEnds(mode) ==
  /\ calls[mode] > 0
  /\ calls' = [calls EXCEPT ![mode] = @ - 1]
  /\ \/ lastUpdate' = Some(now) /\ UNCHANGED error
     \/ error' = TRUE /\ UNCHANGED lastUpdate
  /\ loading' = FALSE
  /\ refreshing' = FALSE
  /\ UNCHANGED <<mounted, store, now, started, getVars, refreshVars, fnVars, raceVars,
                 contentVars, stageLocals, stageVars, fetcherVars>>

LoadEnds == CallEnds("load")

RefreshEnds == CallEnds("refresh")

InitDashboard ==
  /\ AtRest
  /\ store = <<>>
  /\ RaceRest
  /\ ContentRest
  /\ StageRest
  /\ OuterRest

NextDashboard ==
  \/ Tick
  \/ Mount
  \/ AutoRefresh
  \/ ManualRefresh
  \/ LoadEnds
  \/ RefreshEnds

SpecDashboard == InitDashboard /\ [][NextDashboard]_vars

\* ----------------------------------------------------------------- claims

\* The GET /api/market/prices request in flight has been answered.
Answered == gpc = "done"

\* ... with the success response.
Succeeded == gpc = "done" /\ response.status = 200

Occurrences(ps, sym) == Cardinality({i \in 1..Len(ps) : ps[i].symbol = sym})

\* The last entry of ps for its symbol is the one at i.
LastForSymbol(ps, i) == \A j \in (i + 1)..Len(ps) : ps[j].symbol # ps[i].symbol

\* The store holds the row an upsert of entry e leaves.
Stored(st, e) == HasRow(st, e.symbol) /\ Fields(RowOf(st, e.symbol)) = e

\* C1: every success response of GET /api/market/prices holds exactly one
\* entry for each of the six required symbols, whatever the primary source
\* returned and whatever the store holds.
C1_ExactlyOnePerRequired ==
  Succeeded =>
    \A k \in 1..Len(requiredSymbols) :
      Occurrences(response.prices, requiredSymbols[k]) = 1

\* C2: GET /api/market/prices answers with a prices list, never with the
\* error response, whichever of the primary call, an upsert or the store
\* read fails.
C2_NeverErrorResponse == Answered => response.status = 200

\* C3: when the primary stage yields no quote and the store is empty or holds
\* no row updated within the last hour, the response is exactly the six static
\* default entries, and nothing read from the store.
C3_DefaultsWhenNoRecentCache ==
  (Succeeded /\ usedFallback /\ ~hasRecent(cachedPrices, oneHourAgo))
    => response.prices = DefaultList

\* C3 happens: rows were read, none of them recent, and the defaults answered.
C3_Witness ==
  /\ Succeeded
  /\ usedFallback
  /\ Len(cachedPrices) > 0
  /\ ~hasRecent(cachedPrices, oneHourAgo)
  /\ response.prices = DefaultList
  /\ cachedPrices[1].price # DEFAULT_PRICES[cachedPrices[1].symbol].price

\* C4: when the primary stage yields no quote and at least one stored row is
\* recent, every stored row is returned with its stored values, the rows older
\* than one hour included.
C4_WholeCacheReturned ==
  (Succeeded /\ usedFallback /\ hasRecent(cachedPrices, oneHourAgo))
    => /\ Len(response.prices) >= Len(cachedPrices)
       /\ \A i \in 1..Len(cachedPrices) : response.prices[i] = Fields(cachedPrices[i])

\* C4 happens: the answer carries a row that is itself older than one hour.
C4_Witness ==
  /\ Succeeded
  /\ usedFallback
  /\ hasRecent(cachedPrices, oneHourAgo)
  /\ \E i \in 1..Len(cachedPrices) :
       /\ cachedPrices[i].updatedAt <= oneHourAgo
       /\ response.prices[i] = Fields(cachedPrices[i])

\* The store read gave a recent BTC row and nothing else.
OnlyRecentBtcCached ==
  /\ Len(cachedPrices) = 1
  /\ cachedPrices[1].symbol = "BTC"
  /\ cachedPrices[1].updatedAt > oneHourAgo

\* The default entries of the required symbols other than BTC, in order.
DefaultsButBtc ==
  <<DefaultEntry("SP500"), DefaultEntry("GOLD"), DefaultEntry("SILVER"),
    DefaultEntry("ETH"), DefaultEntry("USDKZT")>>

\* C5 as stated: with only a recent BTC row in the store and no quote from the
\* primary stage, the response is the cached set alone, with no static-default
\* entries mixed in.
C5_CachedSetAlone ==
  (Succeeded /\ usedFallback /\ OnlyRecentBtcCached)
    => response.prices = <<Fields(cachedPrices[1])>>

\* C5 as amended: with only a recent BTC row in the store and no quote from the
\* primary stage, the response is the cached BTC entry followed by the static
\* default entries of the five required symbols the cache lacks, tagged cache.
C5_CachedBtcPlusDefaults ==
  (Succeeded /\ usedFallback /\ OnlyRecentBtcCached)
    => /\ response.prices = <<Fields(cachedPrices[1])>> \o DefaultsButBtc
       /\ response.source = "cache"

\* C5 happens: the cached BTC row, not the BTC default, leads the answer.
C5_Witness ==
  /\ Succeeded
  /\ usedFallback
  /\ OnlyRecentBtcCached
  /\ response.prices[1].price = cachedPrices[1].price
  /\ response.prices[1].price # DEFAULT_PRICES["BTC"].price
  /\ Len(response.prices) = 6

\* C6: the source tag is one of live, cached, default and names the stage the
\* returned prices came from: live only for the primary quote source, cached
\* for rows read from the store, default for the static defaults; extracted
\* prices are not tagged live.
C6_SourceTagNamesStage ==
  Succeeded =>
    /\ response.source \in {"live", "cached", "default"}
    /\ response.source = "live" => (stage = "primary" /\ ~usedFallback)
    /\ (usedFallback /\ hasRecent(cachedPrices, oneHourAgo)) => response.source = "cached"
    /\ (usedFallback /\ ~hasRecent(cachedPrices, oneHourAgo)) => response.source = "default"

\* C7: on the live path every quote with price > 0 is returned and upserted
\* under its canonical symbol with full overwrite: with no store error and no
\* other writer, after the request the row of each returned symbol holds
\* exactly the name, price, change, high, low and volume returned for it (the
\* last one, should the answer repeat a symbol); BTC-USD at 96000 is BTC /
\* Bitcoin / 96000.
C7_LiveQuotesStored ==
  (Succeeded /\ ~usedFallback /\ dbErrors = {} /\ rpc = "idle")
    => \A i \in 1..Len(prices) :
         /\ prices[i].price > 0
         /\ response.prices[i] = prices[i]
         /\ prices[i].symbol \notin {"^GSPC", "GC=F", "SI=F", "BTC-USD", "ETH-USD", "KZT=X"}
         /\ LastForSymbol(prices, i) => Stored(store, prices[i])

\* C7 happens: a row the store held before the request was overwritten by the
\* returned BTC quote at 96000.
C7_Witness ==
  /\ Succeeded
  /\ ~usedFallback
  /\ dbErrors = {}
  /\ rpc = "idle"
  /\ started = 1
  /\ \E i \in 1..Len(prices) :
       /\ prices[i].symbol = "BTC" /\ prices[i].name = "Bitcoin"
       /\ prices[i].price = 9600000
       /\ Stored(store, prices[i])
  /\ Len(store) = 2
  /\ store[1].symbol = "BTC"
  /\ store[2].symbol = "ETH" /\ store[2].price = 280000

\* C8: a store error during the upsert of one symbol does not abort the batch:
\* the whole batch is processed, the later symbols are upserted, the quote
\* whose upsert failed is returned, and the caller gets the success response.
C8_DbErrorKeepsBatch ==
  (Answered /\ dbErrors # {})
    => /\ response.status = 200
       /\ response.source = "live"
       /\ Len(snapshotData) = 0
       /\ \A i \in 1..Len(prices) : response.prices[i] = prices[i]
       /\ rpc = "idle" =>
            \A i \in 1..Len(prices) :
              (i \notin dbErrors /\ LastForSymbol(prices, i)) => Stored(store, prices[i])

\* C8 happens: the first upsert of a batch of two symbols threw, the second
\* symbol was stored, and both were returned.
C8_Witness ==
  /\ Answered
  /\ dbErrors = {1}
  /\ Len(prices) = 2
  /\ prices[1].symbol # prices[2].symbol
  /\ rpc = "idle"
  /\ started = 1
  /\ ~HasRow(store, prices[1].symbol)
  /\ Stored(store, prices[2])
  /\ response.prices[1] = prices[1]

\* C9: a store error while upserting one symbol during a refresh is logged and
\* does not block the rest: the remaining symbols of the batch are still
\* upserted (only the failed one is left out) and the refresh still responds.
C9_RefreshDbErrorKeepsBatch ==
  (rpc = "done" /\ rLogged)
    => /\ rResponse.status # 0
       /\ Len(rSnapshot) <= 1

\* C10: no row of the store has price <= 0, after any sequence of requests.
C10_StoredPricesPositive == \A i \in 1..Len(store) : store[i].price > 0

\* No two rows of the store share a symbol.
UniqueSymbols(st) ==
  \A i, j \in 1..Len(st) : st[i].symbol = st[j].symbol => i = j

\* What the handlers in flight are about to upsert.
Writers ==
  (IF gpc = "loop" /\ Len(snapshotData) > 0
     THEN {PriceData(Head(snapshotData))} ELSE {})
    \cup (IF rpc = "prices" /\ Len(rSnapshot) > 0
            THEN {RefreshData(Head(rSnapshot))} ELSE {})

\* C11: under every interleaving of GET /api/market/prices and the refresh,
\* the store holds at most one row per symbol, no step removes a row or
\* changes its symbol, and every row a step leaves changed or new holds all
\* the fields of one single upsert of that step's writer, stamped now.
C11_OneWholeRowPerSymbol ==
  [][/\ UniqueSymbols(store) /\ UniqueSymbols(store')
     /\ Len(store') >= Len(store)
     /\ \A i \in 1..Len(store) : store'[i].symbol = store[i].symbol
     /\ \A i \in 1..Len(store') :
          \/ i <= Len(store) /\ store'[i] = store[i]
          \/ \E data \in Writers :
               Fields(store'[i]) = data /\ store'[i].updatedAt = now]_vars

\* Both handlers are in their loops and both have written BTC: the request
\* pushed and stored the full quote, the row is the one the refresh wrote from
\* the bare quote.
C11_Witness ==
  /\ gpc = "loop" /\ rpc = "prices"
  /\ Len(prices) = 1 /\ prices[1].symbol = "BTC" /\ prices[1].price = 9600000
  /\ dbErrors = {}
  /\ Len(rSnapshot) = 1
  /\ HasRow(store, "BTC")
  /\ RowOf(store, "BTC").price = 9700000
  /\ RowOf(store, "BTC").change24h = None
  /\ UniqueSymbols(store)

\* A priceData call has returned.
PriceDataReturned == call.fn = "priceData" /\ ret # <<>>

\* The price p is plausible against the reference r: positive and within
\* [r / 2, 2 r].
Plausible(p, r) == p > 0 /\ r <= 2 * p /\ p <= 2 * r

\* C12 as stated: an implausible live price of a symbol of the batch is kept
\* as an entry whose price is the prior stored value of the symbol when the
\* store has one, and the midpoint of the symbol's price range otherwise.
C12_ReplacedByStoredOrMidpoint ==
  (/\ PriceDataReturned
   /\ call.item.ticker \in DOMAIN PRICE_RANGES
   /\ ~Plausible(call.item.price, DEFAULT_PRICES[ret[1].data.symbol].price))
    => /\ ret[1].pushed
       /\ ret[1].data.price =
            IF HasRow(store, ret[1].data.symbol)
            THEN RowOf(store, ret[1].data.symbol).price
            ELSE Midpoint(PRICE_RANGES[call.item.ticker])

\* C12, amended: an implausible live price of a symbol with a static default
\* never discards the record: the entry is pushed and its price is the
\* symbol's static default price, whatever the store holds for the symbol.
C12_ReplacedByDefault ==
  (/\ PriceDataReturned
   /\ HasDefault(ret[1].data.symbol)
   /\ ~Plausible(call.item.price, DEFAULT_PRICES[ret[1].data.symbol].price))
    => /\ ret[1].pushed
       /\ ret[1].data.price = DEFAULT_PRICES[ret[1].data.symbol].price

\* An ETH quote just above twice the default, with another price stored for
\* ETH, came back at the default price.
C12_Witness ==
  /\ PriceDataReturned
  /\ call.item.ticker = "ETH-USD"
  /\ call.item.price = 545001
  /\ HasRow(store, "ETH") /\ RowOf(store, "ETH").price = 280000
  /\ ret[1].pushed
  /\ ret[1].data.price = 272500

\* C13: a live price p of a symbol with the default price r is kept unchanged
\* (pushed at p) exactly when p > 0 and r / 2 <= p <= 2 r, both limits
\* included; of a symbol without a default every price > 0 is kept unchanged
\* and every price <= 0 is rejected (nothing is pushed).
C13_KeptExactlyWhenPlausible ==
  PriceDataReturned =>
    LET sym  == ret[1].data.symbol
        p    == call.item.price
        kept == ret[1].pushed /\ ret[1].data.price = p
    IN  IF HasDefault(sym)
        THEN kept <=> Plausible(p, DEFAULT_PRICES[sym].price)
        ELSE (p > 0 => kept) /\ (p <= 0 => ~ret[1].pushed)

\* A silver quote of exactly twice the default came back unchanged.
C13_Witness ==
  /\ PriceDataReturned
  /\ call.item.ticker = "SI=F"
  /\ call.item.price = 2 * DEFAULT_PRICES["SILVER"].price
  /\ ret[1].pushed
  /\ ret[1].data.price = call.item.price

\* A normalize call has returned.
NormalizeReturned == call.fn = "normalize" /\ ret # <<>>

\* The six upstream tickers with their canonical symbol and display name.
KnownTickers ==
  [t \in {"^GSPC", "GC=F", "SI=F", "BTC-USD", "ETH-USD", "KZT=X"} |->
     CASE t = "^GSPC"   -> [symbol |-> "SP500",  name |-> "S&P 500"]
       [] t = "GC=F"    -> [symbol |-> "GOLD",   name |-> "Gold"]
       [] t = "SI=F"    -> [symbol |-> "SILVER", name |-> "Silver"]
       [] t = "BTC-USD" -> [symbol |-> "BTC",    name |-> "Bitcoin"]
       [] t = "ETH-USD" -> [symbol |-> "ETH",    name |-> "Ethereum"]
       [] t = "KZT=X"   -> [symbol |-> "USDKZT", name |-> "USD/KZT"]]

\* C14 as stated: each of the six upstream tickers gets its canonical symbol
\* and display name, and any other ticker passes through with the raw ticker
\* as canonical symbol and as display name, whatever else the item carries.
C14_OthersNamedByTicker ==
  NormalizeReturned =>
    IF call.item.ticker \in DOMAIN KnownTickers
    THEN ret[1] = KnownTickers[call.item.ticker]
    ELSE ret[1] = [symbol |-> call.item.ticker, name |-> call.item.ticker]

\* C14, amended: each of the six upstream tickers gets its canonical symbol
\* and display name, whatever else the item carries; any other ticker is its
\* own canonical symbol, and its display name is the item's name when the item
\* carries a non-empty one and the raw ticker otherwise.
C14_OthersNamedByItemName ==
  NormalizeReturned =>
    IF call.item.ticker \in DOMAIN KnownTickers
    THEN ret[1] = KnownTickers[call.item.ticker]
    ELSE /\ ret[1].symbol = call.item.ticker
         /\ ret[1].name = IF call.item.name # "" THEN call.item.name
                          ELSE call.item.ticker

\* A GLD item carrying a name came back as GLD under that name.
C14_Witness ==
  /\ NormalizeReturned
  /\ call.item.ticker = "GLD"
  /\ call.item.name = "Upstream name"
  /\ ret[1] = [symbol |-> "GLD", name |-> "Upstream name"]

\* C15: normalizing is idempotent on both outputs: the item of a returned
\* normalize call, carrying the canonical symbol in place of its ticker,
\* normalizes to the same canonical symbol and the same display name.
C15_NormalizeIdempotent ==
  NormalizeReturned =>
    Normalize([call.item EXCEPT !.ticker = ret[1].symbol]) = ret[1]

\* C16: a request about to read the cache or the defaults has had its primary
\* call fail or time out, then the web searched for every symbol of the batch,
\* and that extraction has resolved nothing.
C16_ExtractionBeforeCache ==
  gpc = "fallback" => (stage = "extracted" /\ Len(prices) = 0)

\* The part of C16 the timeout does not touch: short of the timeout, the
\* fallback is reached from an extraction that resolved nothing.
FallbackShortOfTimeout ==
  (gpc = "fallback" /\ stage # "timeout") => (stage = "extracted" /\ Len(prices) = 0)

\* The loop of a request answered by the gateway itself is visiting an item of
\* the batch whose price is zero or negative.
VisitingBadItem ==
  /\ gpc = "loop"
  /\ stage = "primary"
  /\ Len(snapshotData) > 0
  /\ Head(snapshotData).ticker \in DOMAIN PRICE_RANGES
  /\ Head(snapshotData).price <= 0
  /\ snapshotData' = Tail(snapshotData)

\* The entries snippet extraction can give for a ticker.
ExtractedEntries(t) ==
  {PriceData(q[1]) :
     q \in {getPriceViaWebSearch(t, symbolNames[t], r) :
              r \in SearchResults(PRICE_RANGES[t])} \ {None}}

VisitingBatchItem ==
  /\ gpc = "loop"
  /\ stage = "primary"
  /\ Len(snapshotData) > 0
  /\ Head(snapshotData).ticker \in DOMAIN PRICE_RANGES
  /\ snapshotData' = Tail(snapshotData)

ExtractReturnedQuote ==
  call.fn = "getPriceViaWebSearch" /\ ret # <<>> /\ ret[1] # None

\* The numbers of the call's snippets that lie within the range.
InRange(nums, range) ==
  {nums[i] : i \in {j \in 1..Len(nums) : nums[j] >= range.min /\ nums[j] <= range.max}}

\* C18: the price of an extracted quote is a number of the snippets within
\* [min, max] that no other such number beats in nearness to the midpoint, and
\* the midpoint when the snippets hold no number within the range; so it
\* always lies in [min, max].
C18_NearestToMidpoint ==
  ExtractReturnedQuote =>
    LET range == PRICE_RANGES[call.symbol]
        mid   == Midpoint(range)
        price == ret[1][1].price
        cands == InRange(call.res.nums, range)
    IN  /\ IF cands = {}
           THEN price = mid
           ELSE /\ price \in cands
                /\ \A c \in cands : Abs(price - mid) <= Abs(c - mid)
        /\ range.min <= price /\ price <= range.max

\* The snippets for BTC-USD held the lower end of the range and then a number
\* next to the midpoint: the quote has the second.
C18_Witness ==
  /\ ExtractReturnedQuote
  /\ call.symbol = "BTC-USD"
  /\ call.res.nums = <<5000000, 10000001>>
  /\ ret[1][1].price = 10000001

\* C19: snippet extraction never fails: whatever the search gave, an empty
\* result list included, the call returns a quote and never an absent result.
C19_ExtractionAlwaysReturnsQuote ==
  (call.fn = "getPriceViaWebSearch" /\ ret # <<>>) => ret[1] # None

C21_TimeoutAnswersCachedOrDefault ==
  (gpc = "done" /\ stage = "timeout") =>
    (response.status = 200 /\ Len(response.prices) > 0)

\* C26: whatever GET /api/market/prices and refresh requests came before,
\* every entry of a success response whose symbol has a default has a price
\* > 0 between half and double that default, on the live path and on the
\* cache path.
C26_ResponsePricesPlausible ==
  Succeeded =>
    \A i \in 1..Len(response.prices) :
      HasDefault(response.prices[i].symbol) =>
        Plausible(response.prices[i].price,
                  DEFAULT_PRICES[response.prices[i].symbol].price)

\* C28: a request whose 20 s timer fired writes nothing to the store: neither
\* the step of the timeout, nor its fallback and answer, nor the late answer
\* of the getSnapshots call it abandoned changes the store.
C28_TimedOutRequestWritesNothing ==
  [][(stage' = "timeout" \/ abandoned' < abandoned) => store' = store]_vars

\* The first request timed out on a store holding BTC, was answered from the
\* cache, and its getSnapshots call has answered since: the store is as it was.
C28_Witness ==
  /\ started = 1
  /\ gpc = "done"
  /\ stage = "timeout"
  /\ abandoned = 0
  /\ response.status = 200
  /\ response.source = "cache"
  /\ Len(store) = 1
  /\ store[1].price = 9510000 /\ store[1].updatedAt = 1

\* The urls of a list of results are pairwise distinct.
DistinctUrls(items) ==
  \A i, j \in 1..Len(items) : items[i].url = items[j].url => i = j

\* C25: searchWeb never throws: it returns the list of the service, and the
\* empty list when the service failed or returned nothing; so
\* searchCryptoNews and searchCryptoPredictions never throw either, and what
\* they return has pairwise distinct urls and at most num items.
C25_SearchNeverThrows ==
  /\ (call.fn = "searchWeb" /\ ret # <<>>) =>
       /\ ~ret[1].threw
       /\ ret[1].value = IF call.out.kind = "list" THEN call.out.items ELSE <<>>
  /\ (call.fn \in {"searchCryptoNews", "searchCryptoPredictions"} /\ ret # <<>>) =>
       /\ ~ret[1].threw
       /\ DistinctUrls(ret[1].value)
       /\ Len(ret[1].value) <= call.num

\* The first news query failed, the second gave the same url twice, the third
\* another page, more recent: searchCryptoNews(1) returned that page alone.
C25_Witness ==
  /\ call.fn = "searchCryptoNews"
  /\ call.num = 1
  /\ call.outs[1].kind = "error"
  /\ call.outs[2].items = <<[url |-> "a", date |-> 1], [url |-> "a", date |-> 2]>>
  /\ call.outs[3].items = <<[url |-> "b", date |-> 2]>>
  /\ ret = <<Returned(<<[url |-> "b", date |-> 2]>>)>>

\* C24: when the web search fails, GET /api/crypto/news and GET
\* /api/crypto/analysis answer with the most recent cached records, newest
\* first and at most 20, and not with an empty list.
C24_FailedSearchAnswersFromCache ==
  [][(started' = started + 1 /\ webSearch.kind = "error") =>
       /\ feed'.status = 200
       /\ feed'.route = "news" =>
            feed'.items = RecentNews(dbCryptoNews, 20)
       /\ feed'.route = "analysis" =>
            feed'.items = RecentAnalysis(dbAnalysis, 20)]_vars

\* The stages of a refresh that are over, by the position of the refresh.
StagesOver ==
  [prices   |-> rpc \in {"rest", "analysis", "history", "setting", "done"},
   news     |-> rpc \in {"analysis", "history", "setting", "done"},
   analysis |-> rpc \in {"history", "setting", "done"},
   history  |-> rpc \in {"setting", "done"}]

C23_SecondRefreshChangesNothing ==
  (rpc = "done" /\ ~rSkipped /\ first # None) =>
    /\ UntimedNews(dbCryptoNews) = first[1].news
    /\ UntimedAnalysis(dbAnalysis) = first[1].analysis

\* C22: a refresh that has begun ends, also when an upstream call stalls.
C22_RefreshEnds == (rpc = "prices") ~> (rpc = "done")

\* A fetchData call ended in this step.
FetchEnded == Len(fetched') = Len(fetched) + 1

\* What C29 says apart from the distance of the two times: fetchData
\* propagates no error, so the timers keep running and /trigger answers
\* 'triggered'; a call of the refresh endpoint that throws leaves the two
\* times as they are, and they are set only when the body was parsed.
FetchDataContained ==
  /\ ~crashed'
  /\ triggerAnswer' \in {"", "triggered"}
  /\ (FetchEnded /\ fetched'[Len(fetched')] # "parsed") =>
       UNCHANGED <<lastFetchTime, nextFetchTime>>
  /\ (lastFetchTime' # lastFetchTime \/ nextFetchTime' # nextFetchTime) =>
       (FetchEnded /\ fetched'[Len(fetched')] = "parsed")
  /\ (lastFetchTime' = None) = (nextFetchTime' = None)

\* C29: as the claim says, except that nextFetchTime is one interval after a
\* reading of the clock taken after that of lastFetchTime: it is lastFetchTime
\* plus one interval or later.
C29_NextFetchAtLeastOneIntervalLater ==
  [][/\ FetchDataContained
     /\ nextFetchTime' # None =>
          nextFetchTime'[1] >= lastFetchTime'[1] + REFRESH_INTERVAL]_vars

\* C29 as stated: nextFetchTime is lastFetchTime plus one interval.
C29_NextFetchExactlyOneIntervalLater ==
  [][/\ FetchDataContained
     /\ nextFetchTime' # None =>
          nextFetchTime'[1] = lastFetchTime'[1] + REFRESH_INTERVAL]_vars

\* A call of the timer set the times, the second a millisecond after the
\* first; then the call of a /trigger request threw: the times are as they
\* were and the request was answered.
C29_Witness ==
  /\ fetched = <<"parsed", "threw">>
  /\ lastFetchTime = Some(1)
  /\ nextFetchTime = Some(2 + REFRESH_INTERVAL)
  /\ triggerAnswer = "triggered"
  /\ ~crashed

\* C30: refreshing is true whenever a fetchData(true) call is in flight, and
\* when no fetchData call is in flight after the first, loading and
\* refreshing are both false.
C30_RefreshingWhileRefreshInFlight ==
  /\ calls.refresh > 0 => refreshing
  /\ (mounted /\ calls.load = 0 /\ calls.refresh = 0) => (~loading /\ ~refreshing)

====
